---- MODULE Spec2Model ----
(***************************************************************************)
(* tough/src/schema/de.rs: the serde helpers of the TUF schema.            *)
(*                                                                         *)
(*   deserialize_keys  decodes a map keyid -> key, pair by pair, checking  *)
(*                     each declared key ID against key.key_id() and       *)
(*                     rejecting a repeated key ID.                        *)
(*   extra_skip_type   decodes an open string-keyed map and removes the    *)
(*                     "_type" tag.                                        *)
(*                                                                         *)
(* A call of deserialize_keys is a process d: its wire input, the number   *)
(* of pairs next_entry() has yielded, the local HashMap, the local         *)
(* `calculated` and the value it returned.                                 *)
(***************************************************************************)
EXTENDS Naturals, Sequences, FiniteSets, TLC

\* ------------------------------------------------------------- bounds
\* Key IDs are byte buffers; the model has the buffers 0 .. NumIds-1.
NumIds == 2
\* Key material is 0 .. MaxKeyVal.
MaxKeyVal == 3
\* The longest wire input of deserialize_keys, in pairs.
MaxLen == 3
\* The number of calls of deserialize_keys that may be in progress at once.
NumDecodes == 2
\* The longest wire input of extra_skip_type, in pairs.
MaxExtraLen == 2

KeyIds == 0 .. (NumIds - 1)
Keys == 0 .. MaxKeyVal
Decodes == 1 .. NumDecodes

\* ------------------------------------------------- external primitives
\* Key::key_id: canonical form of the key, hashed. It fails on key material
\* that has no canonical form (0 here); distinct keys may share a key ID.
key_id(key) ==
  IF key = 0 THEN [ok |-> FALSE, val |-> 0]
             ELSE [ok |-> TRUE, val |-> key % NumIds]

\* hex::encode of a one-byte buffer: two lower-case hex digits.
HexDigits == <<"0", "1", "2", "3", "4", "5", "6", "7",
               "8", "9", "a", "b", "c", "d", "e", "f">>
hex_encode(id) == <<HexDigits[(id \div 16) + 1], HexDigits[(id % 16) + 1]>>

\* One pair of the wire map, as MapAccess::next_entry sees it: either it
\* decodes to (keyid, key) or its decoding fails.
Malformed == [decoded |-> FALSE, keyid |-> 0, key |-> 0]
Entry(keyid, key) == [decoded |-> TRUE, keyid |-> keyid, key |-> key]
Entries == {Entry(i, k) : i \in KeyIds, k \in Keys} \cup {Malformed}

SeqsUpTo(S, n) == UNION {[1 .. m -> S] : m \in 0 .. n}
Inputs == SeqsUpTo(Entries, MaxLen)

\* ------------------------------------------------------------ HashMap
EmptyMap == [k \in {} |-> 0]
\* Mutant of MapInsert: the insert forgets the entries made before.
MapInsertLosing(m, k, v) == [x \in {k} |-> v]
\* HashMap::insert: the value of an existing key is replaced.
MapInsert(m, k, v) == [x \in (DOMAIN m) \cup {k} |-> IF x = k THEN v ELSE m[x]]
\* Mutant of MapRemove: nothing is removed.
MapRemoveNothing(m, k) == m
\* HashMap::remove
MapRemove(m, k) == [x \in (DOMAIN m) \ {k} |-> m[x]]

\* ------------------------------------------------------------- results
NoResult == [kind |-> "None"]
Ok(m) == [kind |-> "Ok", map |-> m]
Err(e) == [kind |-> "Err", error |-> e]

KeyDecodeError == [kind |-> "KeyDecodeError"]
KeyIdComputationError == [kind |-> "IdentifierComputationError"]
InvalidKeyId(keyid_hex, calculated_hex) ==
  [kind |-> "InvalidKeyId", keyid |-> keyid_hex, calculated |-> calculated_hex]
DuplicateKeyId(keyid_hex) == [kind |-> "DuplicateKeyId", keyid |-> keyid_hex]
StructuralDecodeError == [kind |-> "StructuralDecodeError"]

\* -------------------------------------------------------------- state
VARIABLES
  input,       \* input[d]: the wire pairs of call d
  pos,         \* pos[d]: how many pairs next_entry() has yielded
  map,         \* map[d]: the local `map` of visit_map
  calculated,  \* calculated[d]: the local `calculated`
  old,         \* old[d]: what map.insert(keyid, key) returned
  pc,          \* pc[d]: where call d is
  result,      \* result[d]: what call d returned
  xinput,      \* extra_skip_type: the wire input
  xmap,        \* extra_skip_type: the local `map`
  xpc,         \* extra_skip_type: where the call is
  xresult,     \* extra_skip_type: what the call returned
  xprev        \* extra_skip_type: the result that was fed back in, if any

dvars == <<input, pos, map, calculated, old, pc, result>>
xvars == <<xinput, xmap, xpc, xresult, xprev>>
vars == <<input, pos, map, calculated, old, pc, result,
          xinput, xmap, xpc, xresult, xprev>>

\* Option<Key>
None == [some |-> FALSE, key |-> 0]
Some(key) == [some |-> TRUE, key |-> key]

NoInput == [wellformed |-> TRUE, pairs |-> <<>>]
NoPrev == [fed |-> FALSE, map |-> EmptyMap]

Init ==
  /\ input = [d \in Decodes |-> <<>>]
  /\ pos = [d \in Decodes |-> 0]
  /\ map = [d \in Decodes |-> EmptyMap]
  /\ calculated = [d \in Decodes |-> 0]
  /\ old = [d \in Decodes |-> None]
  /\ pc = [d \in Decodes |-> "idle"]
  /\ result = [d \in Decodes |-> NoResult]
  /\ xinput = NoInput
  /\ xmap = EmptyMap
  /\ xpc = "idle"
  /\ xresult = NoResult
  /\ xprev = NoPrev

\* The pair next_entry() yielded last.
Cur(d) == input[d][pos[d]]

\* ---------------------------------------------------- deserialize_keys
\* Mutant of NewMap: the calls build on one container, that of call 1.
NewMapShared(d) == map[1]
\* `let mut map = HashMap::new();`
NewMap(d) == EmptyMap

\* A call on one of the wire inputs of `wires`:
\* deserializer.deserialize_map(Visitor) enters visit_map.
deserialize_keys(d, wires) ==
  /\ pc[d] = "idle"
  /\ \E wire \in wires : input' = [input EXCEPT ![d] = wire]
  /\ map' = [map EXCEPT ![d] = NewMap(d)]
  /\ pc' = [pc EXCEPT ![d] = "next_entry"]
  /\ UNCHANGED <<pos, calculated, old, result>>
  /\ UNCHANGED xvars

\* Mutant of next_entry: a pair that does not decode is skipped.
next_entry_skip_bad(d) ==
  /\ pc[d] = "next_entry"
  /\ IF pos[d] = Len(input[d])
       THEN /\ result' = [result EXCEPT ![d] = Ok(map[d])]
            /\ map' = [map EXCEPT ![d] = EmptyMap]
            /\ pc' = [pc EXCEPT ![d] = "returned"]
            /\ pos' = pos
       ELSE /\ pos' = [pos EXCEPT ![d] = pos[d] + 1]
            /\ pc' = [pc EXCEPT ![d] =
                 IF input[d][pos[d] + 1].decoded THEN "key_id"
                                                 ELSE "next_entry"]
            /\ UNCHANGED <<result, map>>
  /\ UNCHANGED <<input, calculated, old>>
  /\ UNCHANGED xvars

\* `while let Some((keyid, key)) = access.next_entry()? { ... } Ok(map)`:
\* the next pair is decoded; a pair that does not decode returns the error,
\* and the end of the input returns the map (the local is moved out).
next_entry(d) ==
  /\ pc[d] = "next_entry"
  /\ IF pos[d] = Len(input[d])
       THEN /\ result' = [result EXCEPT ![d] = Ok(map[d])]
            /\ map' = [map EXCEPT ![d] = EmptyMap]
            /\ pc' = [pc EXCEPT ![d] = "returned"]
            /\ pos' = pos
       ELSE /\ pos' = [pos EXCEPT ![d] = pos[d] + 1]
            /\ IF input[d][pos[d] + 1].decoded
                 THEN /\ pc' = [pc EXCEPT ![d] = "key_id"]
                      /\ UNCHANGED <<result, map>>
                 ELSE /\ pc' = [pc EXCEPT ![d] = "returned"]
                      /\ result' = [result EXCEPT ![d] = Err(KeyDecodeError)]
                      /\ map' = [map EXCEPT ![d] = EmptyMap]
  /\ UNCHANGED <<input, calculated, old>>
  /\ UNCHANGED xvars

\* Mutant of calculate: the error of key_id is dropped and the key ID it
\* left is compared.
calculate_lenient(d) ==
  /\ pc[d] = "key_id"
  /\ calculated' = [calculated EXCEPT ![d] = key_id(Cur(d).key).val]
  /\ pc' = [pc EXCEPT ![d] = "ensure_match"]
  /\ UNCHANGED <<input, pos, map, old, result>>
  /\ UNCHANGED xvars

\* `let calculated = key.key_id()?;`
calculate(d) ==
  /\ pc[d] = "key_id"
  /\ LET r == key_id(Cur(d).key) IN
       IF r.ok
         THEN /\ calculated' = [calculated EXCEPT ![d] = r.val]
              /\ pc' = [pc EXCEPT ![d] = "ensure_match"]
              /\ UNCHANGED <<result, map>>
         ELSE /\ calculated' = calculated
              /\ pc' = [pc EXCEPT ![d] = "returned"]
              /\ result' = [result EXCEPT ![d] = Err(KeyIdComputationError)]
              /\ map' = [map EXCEPT ![d] = EmptyMap]
  /\ UNCHANGED <<input, pos, old>>
  /\ UNCHANGED xvars

\* Mutant of ensure_match: the comparison is left out.
ensure_match_skipped(d) ==
  /\ pc[d] = "ensure_match"
  /\ pc' = [pc EXCEPT ![d] = "insert"]
  /\ UNCHANGED <<input, pos, map, calculated, old, result>>
  /\ UNCHANGED xvars

\* Mutant of ensure_match: a key ID already in the map is reported first.
ensure_match_dup_first(d) ==
  /\ pc[d] = "ensure_match"
  /\ IF Cur(d).keyid \in DOMAIN map[d]
       THEN /\ pc' = [pc EXCEPT ![d] = "returned"]
            /\ result' = [result EXCEPT ![d] =
                 Err(DuplicateKeyId(hex_encode(Cur(d).keyid)))]
            /\ map' = [map EXCEPT ![d] = EmptyMap]
       ELSE IF Cur(d).keyid = calculated[d]
         THEN /\ pc' = [pc EXCEPT ![d] = "insert"]
              /\ UNCHANGED <<result, map>>
         ELSE /\ pc' = [pc EXCEPT ![d] = "returned"]
              /\ result' = [result EXCEPT ![d] =
                   Err(InvalidKeyId(hex_encode(Cur(d).keyid),
                                    hex_encode(calculated[d])))]
              /\ map' = [map EXCEPT ![d] = EmptyMap]
  /\ UNCHANGED <<input, pos, calculated, old>>
  /\ UNCHANGED xvars

\* `ensure!(keyid == calculated, InvalidKeyIdSnafu { keyid, calculated })`
ensure_match(d) ==
  /\ pc[d] = "ensure_match"
  /\ IF Cur(d).keyid = calculated[d]
       THEN /\ pc' = [pc EXCEPT ![d] = "insert"]
            /\ UNCHANGED <<result, map>>
       ELSE /\ pc' = [pc EXCEPT ![d] = "returned"]
            /\ result' = [result EXCEPT ![d] =
                 Err(InvalidKeyId(hex_encode(Cur(d).keyid),
                                  hex_encode(calculated[d])))]
            /\ map' = [map EXCEPT ![d] = EmptyMap]
  /\ UNCHANGED <<input, pos, calculated, old>>
  /\ UNCHANGED xvars

\* Mutant of insert_entry: the pair goes into the map of every call.
insert_entry_shared(d) ==
  /\ pc[d] = "insert"
  /\ old' = [old EXCEPT ![d] =
       IF Cur(d).keyid \in DOMAIN map[d] THEN Some(map[d][Cur(d).keyid])
                                         ELSE None]
  /\ map' = [x \in Decodes |-> MapInsert(map[x], Cur(d).keyid, Cur(d).key)]
  /\ pc' = [pc EXCEPT ![d] = "ensure_new"]
  /\ UNCHANGED <<input, pos, calculated, result>>
  /\ UNCHANGED xvars

\* `map.insert(keyid, key)`: the argument of the second ensure!.
insert_entry(d) ==
  /\ pc[d] = "insert"
  /\ old' = [old EXCEPT ![d] =
       IF Cur(d).keyid \in DOMAIN map[d] THEN Some(map[d][Cur(d).keyid])
                                         ELSE None]
  /\ map' = [map EXCEPT ![d] = MapInsert(map[d], Cur(d).keyid, Cur(d).key)]
  /\ pc' = [pc EXCEPT ![d] = "ensure_new"]
  /\ UNCHANGED <<input, pos, calculated, result>>
  /\ UNCHANGED xvars

\* Mutant of ensure_new: what the insert returned is not looked at.
ensure_new_lenient(d) ==
  /\ pc[d] = "ensure_new"
  /\ pc' = [pc EXCEPT ![d] = "next_entry"]
  /\ old' = [old EXCEPT ![d] = None]
  /\ UNCHANGED <<input, pos, calculated, result, map>>
  /\ UNCHANGED xvars

\* `ensure!(.. .is_none(), DuplicateKeyIdSnafu { keyid })` and `Ok(())`
ensure_new(d) ==
  /\ pc[d] = "ensure_new"
  /\ IF ~old[d].some
       THEN /\ pc' = [pc EXCEPT ![d] = "next_entry"]
            /\ UNCHANGED <<result, map>>
       ELSE /\ pc' = [pc EXCEPT ![d] = "returned"]
            /\ result' = [result EXCEPT ![d] =
                 Err(DuplicateKeyId(hex_encode(Cur(d).keyid)))]
            /\ map' = [map EXCEPT ![d] = EmptyMap]
  /\ old' = [old EXCEPT ![d] = None]
  /\ UNCHANGED <<input, pos, calculated>>
  /\ UNCHANGED xvars

\* The caller takes the returned value; nothing of the call remains.
finish(d) ==
  /\ pc[d] = "returned"
  /\ input' = [input EXCEPT ![d] = <<>>]
  /\ pos' = [pos EXCEPT ![d] = 0]
  /\ calculated' = [calculated EXCEPT ![d] = 0]
  /\ result' = [result EXCEPT ![d] = NoResult]
  /\ pc' = [pc EXCEPT ![d] = "idle"]
  /\ UNCHANGED <<map, old>>
  /\ UNCHANGED xvars

\* ----------------------------------------------------- extra_skip_type
\* The wire form of an `_extra` map: pairs of a field name and a JSON value
\* (a scalar, a number, a sequence, a nested map with its own "_type"),
\* or something that is no map at all.
Names == {"_type", "foo", "bar"}
Values == {"\"root\"", "1", "[1,2]", "{\"_type\":\"x\"}"}
Pair(name, value) == [name |-> name, value |-> value]
Pairs == {Pair(n, v) : n \in Names, v \in Values}
NotAMap == [wellformed |-> FALSE, pairs |-> <<>>]
Wire(pairs) == [wellformed |-> TRUE, pairs |-> pairs]
ExtraInputs == {Wire(ps) : ps \in SeqsUpTo(Pairs, MaxExtraLen)} \cup {NotAMap}

\* HashMap<String, Value>::deserialize: the pairs are inserted in wire order.
RECURSIVE HashMapFromPairs(_)
HashMapFromPairs(ps) ==
  IF ps = <<>> THEN EmptyMap
  ELSE LET last == ps[Len(ps)] IN
       MapInsert(HashMapFromPairs(SubSeq(ps, 1, Len(ps) - 1)),
                 last.name, last.value)

\* The wire forms of a map: its entries in any order.
Serializations(m) ==
  {Wire(ps) : ps \in {f \in [1 .. Cardinality(DOMAIN m) ->
                              {Pair(n, m[n]) : n \in DOMAIN m}] :
                        \A i, j \in DOMAIN f : i # j => f[i] # f[j]}}

\* A call of extra_skip_type on one of the wire inputs of `wires`.
extra_skip_type(wires) ==
  /\ xpc = "idle"
  /\ \E wire \in wires : xinput' = wire
  /\ xpc' = "deserialize"
  /\ UNCHANGED <<xmap, xresult, xprev>>
  /\ UNCHANGED dvars

\* `let mut map = HashMap::deserialize(deserializer)?;`
hashmap_deserialize ==
  /\ xpc = "deserialize"
  /\ IF xinput.wellformed
       THEN /\ xmap' = HashMapFromPairs(xinput.pairs)
            /\ xpc' = "remove"
            /\ xresult' = xresult
       ELSE /\ xmap' = xmap
            /\ xpc' = "returned"
            /\ xresult' = Err(StructuralDecodeError)
  /\ UNCHANGED <<xinput, xprev>>
  /\ UNCHANGED dvars

\* `map.remove("_type"); Ok(map)`
remove_type ==
  /\ xpc = "remove"
  /\ xresult' = Ok(MapRemove(xmap, "_type"))
  /\ xmap' = EmptyMap
  /\ xpc' = "returned"
  /\ UNCHANGED <<xinput, xprev>>
  /\ UNCHANGED dvars

\* The returned map is written out again and given to extra_skip_type.
extra_skip_type_again ==
  /\ xpc = "returned"
  /\ xresult.kind = "Ok"
  /\ ~xprev.fed
  /\ \E wire \in Serializations(xresult.map) : xinput' = wire
  /\ xprev' = [fed |-> TRUE, map |-> xresult.map]
  /\ xresult' = NoResult
  /\ xpc' = "deserialize"
  /\ UNCHANGED xmap
  /\ UNCHANGED dvars

\* The caller takes the returned value; nothing of the call remains.
extra_finish ==
  /\ xpc = "returned"
  /\ xinput' = NoInput
  /\ xresult' = NoResult
  /\ xprev' = NoPrev
  /\ xpc' = "idle"
  /\ UNCHANGED xmap
  /\ UNCHANGED dvars

\* ------------------------------------------------------ specifications
\* One call of deserialize_keys at a time, one after another, on any input.
Next ==
  \/ deserialize_keys(1, Inputs)
  \/ next_entry(1)
  \/ calculate(1)
  \/ ensure_match(1)
  \/ insert_entry(1)
  \/ ensure_new(1)
  \/ finish(1)

Spec == Init /\ [][Next]_vars

\* Wire inputs of the concurrent calls: the empty map, valid maps of one and
\* two keys, a repeated key ID under two keys, a mismatch, a pair that does
\* not decode, a key whose ID cannot be computed.
Good(key) == Entry(key_id(key).val, key)
Bad(key) == Entry((key_id(key).val + 1) % NumIds, key)
ConcInputs ==
  { <<>>,
    <<Good(1)>>,
    <<Good(1), Good(2)>>,
    <<Good(1), Good(1 + NumIds)>>,
    <<Bad(1), Good(2)>>,
    <<Good(2), Malformed>>,
    <<Entry(0, 0)>> }

\* Several calls of deserialize_keys, their steps interleaved.
NextConc ==
  \E d \in Decodes :
    \/ deserialize_keys(d, ConcInputs)
    \/ next_entry(d)
    \/ calculate(d)
    \/ ensure_match(d)
    \/ insert_entry(d)
    \/ ensure_new(d)
    \/ finish(d)

SpecConc == Init /\ [][NextConc]_vars

\* Calls of extra_skip_type, one after another.
NextExtra ==
  \/ extra_skip_type(ExtraInputs)
  \/ hashmap_deserialize
  \/ remove_type
  \/ extra_skip_type_again
  \/ extra_finish

SpecExtra == Init /\ [][NextExtra]_vars

\* ------------------------------------------------ visit_map as a fold
\* What visit_map returns for a wire input when the call runs by itself:
\* the pairs from position i on, folded into the accumulator m.
RECURSIVE Fold(_, _, _)
Fold(wire, i, m) ==
  IF i > Len(wire) THEN Ok(m)
  ELSE LET e == wire[i]
           r == key_id(e.key)
       IN  IF ~e.decoded THEN Err(KeyDecodeError)
           ELSE IF ~r.ok THEN Err(KeyIdComputationError)
           ELSE IF e.keyid # r.val
             THEN Err(InvalidKeyId(hex_encode(e.keyid), hex_encode(r.val)))
           ELSE IF e.keyid \in DOMAIN m
             THEN Err(DuplicateKeyId(hex_encode(e.keyid)))
           ELSE Fold(wire, i + 1, MapInsert(m, e.keyid, e.key))
DecodeAlone(wire) == Fold(wire, 1, EmptyMap)

\* ---------------------------------------------- vocabulary of the claims
Idx(wire) == 1 .. Len(wire)
Returned(d) == pc[d] = "returned"
Failed(d) == Returned(d) /\ result[d].kind = "Err"

\* The pair decodes and its declared key ID is the ID of its key.
Valid(e) == e.decoded /\ key_id(e.key).ok /\ key_id(e.key).val = e.keyid
\* The declared key ID of pair i repeats that of an earlier pair.
Repeats(wire, i) ==
  \E j \in 1 .. (i - 1) : wire[j].decoded /\ wire[i].decoded
                          /\ wire[j].keyid = wire[i].keyid
\* Pair i fails: decode error, key_id error, mismatch or repeated key ID.
PairFails(wire, i) == ~Valid(wire[i]) \/ Repeats(wire, i)
Failing(wire) == {i \in Idx(wire) : PairFails(wire, i)}
\* The lowest index of a failing pair.
FirstFail(wire) ==
  CHOOSE i \in Failing(wire) : \A j \in Failing(wire) : i <= j
\* The declared key IDs of the pairs in S are pairwise distinct.
Distinct(wire, S) ==
  \A i, j \in S : i # j => wire[i].keyid # wire[j].keyid
AllValid(wire) ==
  (\A i \in Idx(wire) : Valid(wire[i])) /\ Distinct(wire, Idx(wire))
\* The error kind the checks of one pair give, in the order of the code.
KindOf(wire, i) ==
  IF ~wire[i].decoded THEN "KeyDecodeError"
  ELSE IF ~key_id(wire[i].key).ok THEN "IdentifierComputationError"
  ELSE IF key_id(wire[i].key).val # wire[i].keyid THEN "InvalidKeyId"
  ELSE "DuplicateKeyId"

\* ----------------------------------------------------------------- C1
\* C1: a returned map holds only entries whose key ID is the ID computed
\* from the key, and then every pair of the input decoded and the declared
\* key IDs are pairwise distinct; if any pair of the input fails (decode,
\* key_id, mismatch, repeated key ID) the call returns an error, no map.
C1_ValidatedOrNoMap ==
  \A d \in Decodes :
    /\ result[d].kind = "Ok" =>
         /\ \A id \in DOMAIN result[d].map :
              key_id(result[d].map[id]) = [ok |-> TRUE, val |-> id]
         /\ \A i \in Idx(input[d]) : input[d][i].decoded
         /\ Distinct(input[d], Idx(input[d]))
    /\ (Returned(d) /\ Failing(input[d]) # {}) => result[d].kind = "Err"

C1_Witness ==
  \E d \in Decodes :
    /\ Returned(d) /\ result[d].kind = "Ok"
    /\ Cardinality(DOMAIN result[d].map) >= 2

\* ----------------------------------------------------------------- C2
\* C2: no silent loss. When all N pairs decode, each declared key ID is the
\* ID of its key and the declared key IDs are pairwise distinct, the call
\* returns a map of exactly N entries, exactly the input pairs (N = 0: the
\* empty map).
C2_NoSilentLoss ==
  \A d \in Decodes :
    (Returned(d) /\ AllValid(input[d])) =>
      /\ result[d].kind = "Ok"
      /\ DOMAIN result[d].map = {input[d][i].keyid : i \in Idx(input[d])}
      /\ \A i \in Idx(input[d]) :
           result[d].map[input[d][i].keyid] = input[d][i].key
      /\ Cardinality(DOMAIN result[d].map) = Len(input[d])

C2_Witness ==
  \E d \in Decodes :
    Returned(d) /\ AllValid(input[d]) /\ Len(input[d]) >= 2

\* ----------------------------------------------------------------- C3
\* Pair i of an otherwise valid input carries a declared key ID altered to
\* a value other than the ID of its key.
AlteredAt(wire, i) ==
  /\ wire[i].decoded /\ key_id(wire[i].key).ok
  /\ wire[i].keyid # key_id(wire[i].key).val
  /\ \A j \in Idx(wire) \ {i} : Valid(wire[j])
  /\ Distinct(wire, Idx(wire) \ {i})

\* C3: mismatch detection. When one pair of an otherwise valid input has
\* its declared key ID altered to a value other than the ID computed from
\* its key, the call fails with InvalidKeyId (the declared and the computed
\* ID in hex) and returns no map.
C3_MismatchDetected ==
  \A d \in Decodes :
    Returned(d) =>
      \A i \in Idx(input[d]) :
        AlteredAt(input[d], i) =>
          result[d] = Err(InvalidKeyId(hex_encode(input[d][i].keyid),
                            hex_encode(key_id(input[d][i].key).val)))

C3_Witness ==
  \E d \in Decodes :
    /\ Returned(d) /\ Len(input[d]) = MaxLen
    /\ AlteredAt(input[d], MaxLen)

\* ----------------------------------------------------------------- C4
\* Pair j repeats the declared key ID of an earlier pair, and every pair up
\* to j passes its own checks, the pairs before j with distinct key IDs.
DuplicateAt(wire, j) ==
  /\ \A k \in 1 .. j : Valid(wire[k])
  /\ Distinct(wire, 1 .. (j - 1))
  /\ Repeats(wire, j)

\* C4 (as stated): any input with two pairs sharing a declared key ID fails
\* with DuplicateKeyId carrying that key ID.
C4_AnyRepeatIsDuplicateKeyId ==
  \A d \in Decodes :
    Returned(d) =>
      \A i \in Idx(input[d]) :
        Repeats(input[d], i) =>
          result[d] = Err(DuplicateKeyId(hex_encode(input[d][i].keyid)))

\* C4 (amended): when two pairs share a declared key ID and every pair up to
\* the second of them decodes and passes its own key_id and mismatch check,
\* the call fails with DuplicateKeyId carrying the repeated key ID.
C4_DuplicateDetected ==
  \A d \in Decodes :
    Returned(d) =>
      \A j \in Idx(input[d]) :
        DuplicateAt(input[d], j) =>
          result[d] = Err(DuplicateKeyId(hex_encode(input[d][j].keyid)))

C4_Witness ==
  \E d \in Decodes :
    /\ Failed(d)
    /\ DuplicateAt(input[d], pos[d])
    /\ \E j \in 1 .. (pos[d] - 1) :
         /\ input[d][j].keyid = input[d][pos[d]].keyid
         /\ input[d][j].key # input[d][pos[d]].key

\* ----------------------------------------------------------------- C5
\* C5: pairs are taken in input order, one at a time, and the call stops at
\* the first failing pair. While the call runs, every pair before the
\* current one passed its checks and its key ID is in the map (with its key,
\* unless the current insert has just written that slot); no pair beyond
\* the lowest failing index is ever yielded; the error returned is that of
\* the lowest-index failing pair.
C5_FirstFailureInOrder ==
  \A d \in Decodes :
    LET wire == input[d]
        done == IF pc[d] \in {"next_entry", "idle"} THEN pos[d]
                                                    ELSE pos[d] - 1
    IN
    /\ pos[d] <= Len(wire)
    /\ Failing(wire) # {} => pos[d] <= FirstFail(wire)
    /\ pc[d] \in {"next_entry", "key_id", "ensure_match", "insert",
                  "ensure_new"} =>
         /\ \A j \in 1 .. done : ~PairFails(wire, j)
         /\ \A j \in 1 .. done : wire[j].keyid \in DOMAIN map[d]
         /\ \A j \in 1 .. done :
              (pc[d] = "ensure_new" /\ wire[j].keyid = wire[pos[d]].keyid)
              \/ map[d][wire[j].keyid] = wire[j].key
    /\ Failed(d) =>
         /\ Failing(wire) # {}
         /\ pos[d] = FirstFail(wire)
         /\ result[d].error.kind = KindOf(wire, pos[d])
         /\ result[d].error.kind \in {"InvalidKeyId", "DuplicateKeyId"} =>
              result[d].error.keyid = hex_encode(wire[pos[d]].keyid)
    /\ (Returned(d) /\ Failing(wire) = {}) => result[d].kind = "Ok"

C5_Witness ==
  \E d \in Decodes :
    /\ Failed(d)
    /\ pos[d] = 2 /\ Len(input[d]) = 3
    /\ PairFails(input[d], 3)

\* ----------------------------------------------------------------- C8
\* C8: within one pair the checks run in the order key_id, mismatch,
\* duplicate. A key whose ID cannot be computed gives a computation failure,
\* never InvalidKeyId; a declared ID other than the computed one gives
\* InvalidKeyId with both IDs in hex, also when the declared ID repeats an
\* earlier pair; DuplicateKeyId is given only for a pair whose declared ID
\* is its computed ID and is the declared ID of an earlier, inserted pair.
C8_CheckOrderWithinPair ==
  \A d \in Decodes :
    Failed(d) =>
      LET e == input[d][pos[d]]
          r == key_id(e.key)
      IN
      /\ (e.decoded /\ ~r.ok) =>
           result[d].error = KeyIdComputationError
      /\ (e.decoded /\ r.ok /\ e.keyid # r.val) =>
           result[d].error =
             InvalidKeyId(hex_encode(e.keyid), hex_encode(r.val))
      /\ result[d].error.kind = "DuplicateKeyId" =>
           /\ e.decoded /\ r.ok /\ e.keyid = r.val
           /\ \E j \in 1 .. (pos[d] - 1) :
                Valid(input[d][j]) /\ input[d][j].keyid = e.keyid

C8_Witness ==
  \E d \in Decodes :
    /\ Failed(d)
    /\ result[d].error.kind = "InvalidKeyId"
    /\ Repeats(input[d], pos[d])

\* ----------------------------------------------------------------- C9
\* C9: when map.insert reports a duplicate, the first pair of that key ID
\* was committed before, and the slot of that key ID still holds the key of
\* that first pair: the later pair's key has not replaced it.
C9_FirstEntryKeepsSlot ==
  \A d \in Decodes :
    (pc[d] = "ensure_new" /\ old[d].some) =>
      \E j \in 1 .. (pos[d] - 1) :
        /\ input[d][j].keyid = input[d][pos[d]].keyid
        /\ old[d].key = input[d][j].key
        /\ map[d][input[d][pos[d]].keyid] = input[d][j].key

\* ----------------------------------------------------------------- C6
\* The index of the last pair of the wire input with this name.
LastOf(ps, name) ==
  CHOOSE i \in Idx(ps) :
    ps[i].name = name /\ \A j \in Idx(ps) : ps[j].name = name => j <= i

\* C6: on a well-formed input extra_skip_type succeeds and returns exactly
\* the entries of the input whose name is not "_type", each with the value
\* the input gives it, whether "_type" is present (with a value of any
\* shape) or not; given its own result again, it returns that result.
C6_StripsOnlyType ==
  (xpc = "returned" /\ xinput.wellformed) =>
    /\ xresult.kind = "Ok"
    /\ DOMAIN xresult.map =
         {xinput.pairs[i].name : i \in Idx(xinput.pairs)} \ {"_type"}
    /\ \A n \in DOMAIN xresult.map :
         xresult.map[n] = xinput.pairs[LastOf(xinput.pairs, n)].value
    /\ xprev.fed => xresult.map = xprev.map

C6_Witness ==
  /\ xpc = "returned" /\ xresult.kind = "Ok" /\ ~xprev.fed
  /\ \E i, j \in Idx(xinput.pairs) :
       /\ xinput.pairs[i] = Pair("_type", "{\"_type\":\"x\"}")
       /\ xinput.pairs[j] = Pair("foo", "{\"_type\":\"x\"}")

\* ----------------------------------------------------------------- C7
\* C7: determinism. Two calls on the same wire input return the same
\* result: the same map, or the same error.
C7_Deterministic ==
  \A d1, d2 \in Decodes :
    (Returned(d1) /\ Returned(d2) /\ input[d1] = input[d2]) =>
      result[d1] = result[d2]

C7_Witness ==
  \E d1, d2 \in Decodes :
    /\ d1 # d2 /\ Returned(d1) /\ Returned(d2)
    /\ input[d1] = input[d2]
    /\ result[d1].kind = "Ok" /\ result[d1].map # EmptyMap

\* ---------------------------------------------------------------- C10
\* C10: every call starts from an empty map and shares nothing with another
\* call: with the steps of several calls interleaved, and with calls one
\* after another, the map of a call holds only key IDs of its own input,
\* and what a call returns is what it returns when run by itself.
C10_Isolated ==
  \A d \in Decodes :
    /\ (pc[d] = "next_entry" /\ pos[d] = 0) => map[d] = EmptyMap
    /\ pc[d] \in {"next_entry", "key_id", "ensure_match", "insert",
                  "ensure_new"} =>
         DOMAIN map[d] \subseteq {input[d][j].keyid : j \in 1 .. pos[d]}
    /\ Returned(d) => result[d] = DecodeAlone(input[d])

C10_Witness ==
  \E d1, d2 \in Decodes :
    /\ d1 # d2
    /\ Failed(d1) /\ result[d1].error.kind = "DuplicateKeyId"
    /\ pc[d2] = "ensure_new" /\ pos[d2] = 2
    /\ input[d1] # input[d2]

====
